---- MODULE Spec2Model ----
(***************************************************************************)
(* Model of ga_pmsp.py: a genetic algorithm for the parallel-machine       *)
(* scheduling problem with sequence-dependent setups and ready times.      *)
(*                                                                         *)
(*   decode_schedule   greedy list scheduling of an ordering of jobs       *)
(*   calcular_ddlb     data-dependent lower bound on the makespan          *)
(*   genetic_algorithm search over orderings, costed by the decoder        *)
(*                                                                         *)
(* Arrays indexed from 0 in the code are functions on 0..n-1 here; lists   *)
(* that the code only appends to (the per-machine schedule, the            *)
(* population, the history) are sequences.  A Python exception ends the    *)
(* call in the pc value "error".                                           *)
(***************************************************************************)
EXTENDS Integers, Sequences, FiniteSets, TLC

\* ---------------------------------------------------------------------
\* Bounds of the model
\* ---------------------------------------------------------------------
\* the decoder and the estimator are run on every instance within these
MaxJobs == 3
MaxMachines == 2
MaxProc == 1
MaxReady == 1
MaxSetup == 1
\* the instances with enough machines, no setups and no ready times
MaxProcB == 7
MaxMachinesB == 4
\* the configurations genetic_algorithm is run with
MaxPop == 3
MaxGen == 2
MaxK == 2
\* the longest parents order_crossover is applied to on its own
MaxOXSize == 4
\* the setup between two jobs that are not in cyclic succession, in the
\* instances genetic_algorithm is run on
GASetupCost == 2

\* Python's None (a null setup entry, an empty last_job slot)
None == -1

VARIABLES
    \* the instance (load_instance)
    n_jobs, n_machines, processing_times, ready_times, setup_matrix,
    \* decode_schedule
    order, machine_time, last_job, completion_times, schedule, pos,
    makespan, dpc,
    \* calcular_ddlb
    ddlb, lpc,
    \* genetic_algorithm: its configuration, its locals, its position
    pop_size, generations, tournament_k,
    population, best, best_history, gen, new_population,
    parent1, parent2, child1, child2, mi, gpc,
    \* the positions drawn by the two tournaments of lines 215-216
    sample1, sample2,
    \* Python's references: the position in the population of the dict that
    \* best refers to, and of the list that child1, child2 refer to (0: an
    \* object that is not in the population)
    best_at, alias1, alias2,
    \* order_crossover: the cut points <<a, b>>
    cuts

instVars == <<n_jobs, n_machines, processing_times, ready_times, setup_matrix>>
decVars == <<order, machine_time, last_job, completion_times, schedule, pos,
             makespan, dpc>>
lbVars == <<ddlb, lpc>>
cfgVars == <<pop_size, generations, tournament_k>>
gaVars == <<population, best, best_history, gen, new_population,
            parent1, parent2, child1, child2, mi, gpc>>
refVars == <<sample1, sample2, best_at, alias1, alias2, cuts>>
vars == <<instVars, decVars, lbVars, cfgVars, gaVars, refVars>>

\* ---------------------------------------------------------------------
\* Helpers
\* ---------------------------------------------------------------------
Jobs == 0 .. (n_jobs - 1)
Machines == 0 .. (n_machines - 1)

Max2(x, y) == IF x >= y THEN x ELSE y

\* Python's max() / min() over a non-empty finite set of numbers
MaxOfSet(S) == CHOOSE x \in S : \A y \in S : y <= x
MinOfSet(S) == CHOOSE x \in S : \A y \in S : x <= y

RECURSIVE SumOver(_, _)
SumOver(f, S) ==
    IF S = {} THEN 0
    ELSE LET x == CHOOSE y \in S : TRUE IN f[x] + SumOver(f, S \ {x})

\* the permutations of 0..n-1, as functions on 0..n-1
Perms(n) ==
    { f \in [0 .. (n - 1) -> 0 .. (n - 1)] :
        \A i, j \in 0 .. (n - 1) : (i # j) => (f[i] # f[j]) }

\* ---------------------------------------------------------------------
\* decode_schedule
\* ---------------------------------------------------------------------

\* lines 66-70: the setup charged when job follows prev on a machine
SetupCharged(prev, job) ==
    IF setup_matrix[prev][job] = None THEN 0 ELSE setup_matrix[prev][job]

\* lines 63-70: the time machine m can take up the job
ReadyComponent(mt, lj, m, job) ==
    IF lj[m] # None THEN mt[m] + SetupCharged(lj[m], job) ELSE mt[m]

\* line 73 (mutant: the ready time is ignored)
CandidateStart_noready(t, job) == t

\* line 73
CandidateStart(t, job) == Max2(t, ready_times[job])

\* line 74
CandidateCompletion(start, job) == start + processing_times[job]

\* lines 62-79 (mutant: line 76 compares with <=, the last machine wins a
\* tie)
RECURSIVE ScanMachines_lastwins(_, _, _, _, _)
ScanMachines_lastwins(mt, lj, job, m, sel) ==
    IF m >= n_machines THEN sel
    ELSE LET start == CandidateStart(ReadyComponent(mt, lj, m, job), job)
             completion == CandidateCompletion(start, job)
             better == (sel.machine = None) \/ (completion <= sel.completion)
         IN ScanMachines_lastwins(mt, lj, job, m + 1,
                IF better
                THEN [machine |-> m, completion |-> completion, start |-> start]
                ELSE sel)

\* lines 62-79: scan of the machines m, m+1, ..., keeping the best so far;
\* sel.machine = None stands for best_completion = inf
RECURSIVE ScanMachines(_, _, _, _, _)
ScanMachines(mt, lj, job, m, sel) ==
    IF m >= n_machines THEN sel
    ELSE LET start == CandidateStart(ReadyComponent(mt, lj, m, job), job)
             completion == CandidateCompletion(start, job)
             better == (sel.machine = None) \/ (completion < sel.completion)
         IN ScanMachines(mt, lj, job, m + 1,
                IF better
                THEN [machine |-> m, completion |-> completion, start |-> start]
                ELSE sel)

\* lines 57-59
NoBest == [machine |-> None, completion |-> 0, start |-> 0]

\* line 82 (mutant: the machine is freed at the job's start, not its end)
NewMachineTime_start(sel) == sel.start

\* line 82
NewMachineTime(sel) == sel.completion

\* lines 56-85 (mutant: line 85 replaces the machine's list by the new
\* entry)
PlaceJob_overwrite(ds, job) ==
    LET sel == ScanMachines(ds.machine_time, ds.last_job, job, 0, NoBest)
        bm == sel.machine
    IN [machine_time |-> [ds.machine_time EXCEPT ![bm] = NewMachineTime(sel)],
        last_job |-> [ds.last_job EXCEPT ![bm] = job],
        completion_times |-> [ds.completion_times EXCEPT ![job] = sel.completion],
        schedule |-> [ds.schedule EXCEPT
                        ![bm] = <<<<job, sel.start, sel.completion>>>>]]

\* lines 56-85: one iteration of the loop over the ordering, on the decoder
\* state ds = [machine_time, last_job, completion_times, schedule]
PlaceJob(ds, job) ==
    LET sel == ScanMachines(ds.machine_time, ds.last_job, job, 0, NoBest)
        bm == sel.machine
    IN [machine_time |-> [ds.machine_time EXCEPT ![bm] = NewMachineTime(sel)],
        last_job |-> [ds.last_job EXCEPT ![bm] = job],
        completion_times |-> [ds.completion_times EXCEPT ![job] = sel.completion],
        schedule |-> [ds.schedule EXCEPT
                        ![bm] = Append(@, <<job, sel.start, sel.completion>>)]]

\* lines 48-54
DecoderStart(ord) ==
    [machine_time |-> [m \in Machines |-> 0],
     last_job |-> [m \in Machines |-> None],
     completion_times |-> [i \in DOMAIN ord |-> 0],
     schedule |-> [m \in Machines |-> <<>>]]

\* line 87: max() of an empty list raises ValueError
MakespanFails(ct) == DOMAIN ct = {}
MakespanOf(ct) == MaxOfSet({ ct[i] : i \in DOMAIN ct })

\* ---------------------------------------------------------------------
\* calcular_ddlb
\* ---------------------------------------------------------------------

\* lines 270-272: the defined setups leaving job i
OutgoingSetups(i) ==
    { setup_matrix[i][j] : j \in { k \in Jobs : k # i /\ setup_matrix[i][k] # None } }

\* lines 269-273: min() of an empty generator raises ValueError
DeltaFails == \E i \in Jobs : OutgoingSetups(i) = {}

\* lines 267-274
Deltas == [i \in Jobs |-> MinOfSet(OutgoingSetups(i))]

\* line 281: sorted(deltas, reverse=True), as a sequence
RECURSIVE SortedDesc(_, _)
SortedDesc(f, S) ==
    IF S = {} THEN <<>>
    ELSE LET i == CHOOSE k \in S : \A l \in S : f[l] <= f[k]
         IN <<f[i]>> \o SortedDesc(f, S \ {i})

\* line 282: sum(deltas_ordenados[:n_machines])
RECURSIVE SumPrefix(_, _)
SumPrefix(seq, k) ==
    IF k <= 0 \/ seq = <<>> THEN 0
    ELSE Head(seq) + SumPrefix(Tail(seq), k - 1)

\* lines 276-283
SetupTotalMinimo(deltas) ==
    SumOver(deltas, Jobs) - SumPrefix(SortedDesc(deltas, Jobs), n_machines)

\* line 285: the numerator of limite_carga_trabalho; the denominator is
\* n_machines
LimiteCargaNum(deltas) ==
    SumOver(processing_times, Jobs) + SetupTotalMinimo(deltas)

\* lines 288-292
LimiteCaminhoCritico(deltas) ==
    LET caminhos == { ready_times[i] + processing_times[i] + deltas[i] : i \in Jobs }
        positive == { c \in caminhos : c > 0 }
    IN IF positive = {} THEN 0 ELSE MaxOfSet(positive)

\* lines 294-295: max(limite_carga_trabalho, limite_caminho_critico) as the
\* fraction num / den (the division of line 285 is a true division)
calcular_ddlb ==
    LET deltas == Deltas
        carga == LimiteCargaNum(deltas)
        caminho == LimiteCaminhoCritico(deltas)
    IN IF caminho * n_machines > carga
       THEN [num |-> caminho, den |-> 1]
       ELSE [num |-> carga, den |-> n_machines]

\* x >= the fraction q
GeqFrac(x, q) == x * q.den >= q.num

\* ---------------------------------------------------------------------
\* The instances and orderings the decoder and the estimator are run on
\* ---------------------------------------------------------------------
SetupValues == {None} \cup (0 .. MaxSetup)

\* the matrix with a null diagonal and the given off-diagonal entries
MatrixOf(n, off) ==
    [i \in 0 .. (n - 1) |->
        [j \in 0 .. (n - 1) |-> IF i = j THEN None ELSE off[<<i, j>>]]]

OffDiagonal(n) ==
    { <<i, j>> : i \in 0 .. (n - 1), j \in 0 .. (n - 1) } \
    { <<i, i>> : i \in 0 .. (n - 1) }

InitInstance ==
    /\ n_jobs \in 0 .. MaxJobs
    /\ n_machines \in 1 .. MaxMachines
    /\ processing_times \in [0 .. (n_jobs - 1) -> 0 .. MaxProc]
    /\ ready_times \in [0 .. (n_jobs - 1) -> 0 .. MaxReady]
    /\ \E off \in [OffDiagonal(n_jobs) -> SetupValues] :
          setup_matrix = MatrixOf(n_jobs, off)

\* no chromosome, no individual: the value of a local not yet assigned
NoChromosome == [i \in {} |-> 0]
NoIndividual == [chromosome |-> NoChromosome, cost |-> None]

\* nothing drawn, nothing referred to
NoReferences ==
    /\ sample1 = <<>> /\ sample2 = <<>>
    /\ best_at = 0 /\ alias1 = 0 /\ alias2 = 0
    /\ cuts = <<>>

\* genetic_algorithm is not called
GAIdle ==
    /\ pop_size = 0 /\ generations = 0 /\ tournament_k = 0
    /\ population = <<>> /\ best = NoIndividual /\ best_history = <<>>
    /\ gen = 0 /\ new_population = <<>>
    /\ parent1 = NoChromosome /\ parent2 = NoChromosome
    /\ child1 = NoChromosome /\ child2 = NoChromosome
    /\ mi = 0 /\ gpc = "idle"
    /\ NoReferences

InitDecoder ==
    /\ InitInstance
    /\ order \in Perms(n_jobs)
    /\ machine_time = DecoderStart(order).machine_time
    /\ last_job = DecoderStart(order).last_job
    /\ completion_times = DecoderStart(order).completion_times
    /\ schedule = DecoderStart(order).schedule
    /\ pos = 0
    /\ makespan = None
    /\ dpc = "loop"
    /\ ddlb = None
    /\ lpc = "idle"
    /\ GAIdle

\* lines 56-85: the loop body for the next job of the ordering
DecodeJob ==
    /\ dpc = "loop"
    /\ pos < n_jobs
    /\ LET ds == PlaceJob([machine_time |-> machine_time, last_job |-> last_job,
                           completion_times |-> completion_times,
                           schedule |-> schedule], order[pos])
       IN /\ machine_time' = ds.machine_time
          /\ last_job' = ds.last_job
          /\ completion_times' = ds.completion_times
          /\ schedule' = ds.schedule
    /\ pos' = pos + 1
    /\ UNCHANGED <<instVars, order, makespan, dpc, lbVars, cfgVars, gaVars,
                   refVars>>

\* lines 87-88: the makespan of the finished schedule
DecodeReturn ==
    /\ dpc = "loop"
    /\ pos = n_jobs
    /\ IF MakespanFails(completion_times)
       THEN /\ dpc' = "error"
            /\ UNCHANGED makespan
       ELSE /\ dpc' = "done"
            /\ makespan' = MakespanOf(completion_times)
    /\ UNCHANGED <<instVars, order, machine_time, last_job, completion_times,
                   schedule, pos, lbVars, cfgVars, gaVars, refVars>>

\* lines 251-295, called on the instance once the decoder has ended
CalcularDdlb ==
    /\ dpc \in {"done", "error"}
    /\ lpc = "idle"
    /\ IF DeltaFails
       THEN /\ lpc' = "error"
            /\ UNCHANGED ddlb
       ELSE /\ lpc' = "done"
            /\ ddlb' = calcular_ddlb
    /\ UNCHANGED <<instVars, decVars, cfgVars, gaVars, refVars>>

\* the decoder on the instances of Scenario B's kind: at least as many
\* machines as jobs, every ready time 0, every setup between jobs 0
InitSufficient ==
    /\ n_jobs \in 0 .. MaxJobs
    /\ n_machines \in Max2(1, n_jobs) .. MaxMachinesB
    /\ processing_times \in [0 .. (n_jobs - 1) -> 0 .. MaxProcB]
    /\ ready_times = [i \in 0 .. (n_jobs - 1) |-> 0]
    /\ setup_matrix = MatrixOf(n_jobs, [ij \in OffDiagonal(n_jobs) |-> 0])
    /\ order \in Perms(n_jobs)
    /\ machine_time = DecoderStart(order).machine_time
    /\ last_job = DecoderStart(order).last_job
    /\ completion_times = DecoderStart(order).completion_times
    /\ schedule = DecoderStart(order).schedule
    /\ pos = 0
    /\ makespan = None
    /\ dpc = "loop"
    /\ ddlb = None
    /\ lpc = "idle"
    /\ GAIdle

NextDecoder == DecodeJob \/ DecodeReturn \/ CalcularDdlb

SpecDecoder == InitDecoder /\ [][NextDecoder]_vars

SpecSufficient == InitSufficient /\ [][NextDecoder]_vars

\* ---------------------------------------------------------------------
\* The genetic algorithm
\* ---------------------------------------------------------------------

\* lines 35-88 as a function: the loop over ord[k], ord[k+1], ...
RECURSIVE DecodeFrom(_, _, _)
DecodeFrom(ds, ord, k) ==
    IF k \notin DOMAIN ord THEN ds
    ELSE DecodeFrom(PlaceJob(ds, ord[k]), ord, k + 1)

\* lines 95-104: evaluate() fails where decode_schedule does
EvaluateFails(chromosome) == MakespanFails(chromosome)

\* lines 87, 103 (mutant: completion_times[-1], the completion time of the
\* job of highest index, is taken as the makespan)
evaluate_lastentry(chromosome) ==
    DecodeFrom(DecoderStart(chromosome), chromosome, 0).completion_times[
        Cardinality(DOMAIN chromosome) - 1]

\* lines 95-104
evaluate(chromosome) ==
    MakespanOf(DecodeFrom(DecoderStart(chromosome), chromosome, 0).completion_times)

\* lines 119-120, 229, 233
Individual(chromosome) == [chromosome |-> chromosome, cost |-> evaluate(chromosome)]

\* Python's min(seq, key=cost): the first element of least cost
MinByCost(seq) ==
    seq[CHOOSE i \in 1 .. Len(seq) :
            /\ \A j \in 1 .. Len(seq) : seq[i].cost <= seq[j].cost
            /\ \A j \in 1 .. (i - 1) : seq[j].cost > seq[i].cost]

\* line 129: random.sample(population, k) draws k distinct positions, in
\* some order
Samples(n, k) ==
    { c \in [1 .. k -> 1 .. n] : \A i, j \in 1 .. k : (i # j) => (c[i] # c[j]) }

\* line 129: random.sample raises ValueError for k > len(population) and
\* for k < 0; line 130: min() of no candidates raises ValueError
TournamentFails(pop, k) == k > Len(pop) \/ k <= 0

\* lines 129-131 (mutant: on equal least cost the last drawn candidate wins)
tournament_selection_last(pop, c) ==
    pop[c[CHOOSE i \in 1 .. Len(c) :
            /\ \A j \in 1 .. Len(c) : pop[c[i]].cost <= pop[c[j]].cost
            /\ \A j \in (i + 1) .. Len(c) : pop[c[j]].cost > pop[c[i]].cost]]

\* lines 129-131 for the sample c
tournament_selection(pop, c) ==
    MinByCost([i \in 1 .. Len(c) |-> pop[c[i]]])

\* line 140: random.sample(range(size), 2) raises ValueError for size < 2
CrossoverFails(parent) == Cardinality(DOMAIN parent) < 2

\* line 140: the sorted cut points
Cuts(size) == { ab \in (0 .. (size - 1)) \X (0 .. (size - 1)) : ab[1] < ab[2] }

\* line 151 (mutant: the test is dropped, every gene of the second parent is
\* placed)
GeneMissing_always(child, gene) == TRUE

\* line 151: gene not in child
GeneMissing(child, gene) == \A i \in DOMAIN child : child[i] # gene

\* lines 149-155: the walk over parent2[b:] + parent2[:b], t genes done
RECURSIVE OXFill(_, _, _, _, _)
OXFill(child, p2, b, t, at) ==
    LET size == Cardinality(DOMAIN p2)
    IN IF t >= size THEN child
       ELSE LET gene == p2[(b + t) % size]
            IN IF GeneMissing(child, gene)
               THEN LET to == IF at >= size THEN 0 ELSE at
                    IN OXFill([child EXCEPT ![to] = gene], p2, b, t + 1, to + 1)
               ELSE OXFill(child, p2, b, t + 1, at)

\* lines 139-157 for the cut points a < b
order_crossover(p1, p2, a, b) ==
    LET size == Cardinality(DOMAIN p1)
        slice == [i \in 0 .. (size - 1) |->
                    IF a <= i /\ i < b THEN p1[i] ELSE None]
    IN OXFill(slice, p2, b, 0, b)

\* line 169 (mutant: only position i is written)
SwapGenes_half(chromosome, i, j) == [chromosome EXCEPT ![i] = chromosome[j]]

\* line 169
SwapGenes(chromosome, i, j) ==
    [chromosome EXCEPT ![i] = chromosome[j], ![j] = chromosome[i]]

\* line 205 (mutant: the first individual is taken as the elite)
Elite_first(pop) == pop[1]

\* line 205
Elite(pop) == MinByCost(pop)

\* the instance with unit processing times, no ready times, and a free
\* setup only from each job to its cyclic successor
CyclicInstance ==
    /\ processing_times = [i \in 0 .. (n_jobs - 1) |-> 1]
    /\ ready_times = [i \in 0 .. (n_jobs - 1) |-> 0]
    /\ setup_matrix = MatrixOf(n_jobs,
          [ij \in OffDiagonal(n_jobs) |->
              IF ij[2] = (ij[1] + 1) % n_jobs THEN 0 ELSE GASetupCost])

\* decode_schedule and calcular_ddlb are not called
DecoderIdle ==
    /\ order = NoChromosome
    /\ machine_time = NoChromosome /\ last_job = NoChromosome
    /\ completion_times = NoChromosome /\ schedule = NoChromosome
    /\ pos = 0 /\ makespan = None /\ dpc = "idle"
    /\ ddlb = None /\ lpc = "idle"

\* the position of the first element of least cost (the element Python's
\* min(seq, key=cost) returns)
MinAtByCost(seq) ==
    CHOOSE i \in 1 .. Len(seq) :
        /\ \A j \in 1 .. Len(seq) : seq[i].cost <= seq[j].cost
        /\ \A j \in 1 .. (i - 1) : seq[j].cost > seq[i].cost

\* lines 129-131: the position in the population of the winner of sample c
WinnerAt(pop, c) == c[MinAtByCost([i \in 1 .. Len(c) |-> pop[c[i]]])]

\* lines 222-223 (mutant: child = parent, the child is the parent's list)
ChildObject_shared(winner) == winner

\* lines 222-223: parent[:] is a new list, not the list of the individual
\* at position winner
ChildObject(winner) == 0

\* lines 228-233 (mutant: the second child is appended without the test of
\* line 231)
AppendedChildren_both(newpop, c1, c2, size) ==
    Append(Append(newpop, Individual(c1)), Individual(c2))

\* lines 228-233: the first child is appended, the second one only while
\* the new population is short of size
AppendedChildren(newpop, c1, c2, size) ==
    LET one == Append(newpop, Individual(c1))
    IN IF Len(one) < size THEN Append(one, Individual(c2)) ELSE one

\* lines 238-239 (mutant: the cost of best is recorded)
HistoryEntry_best(pop, bst) == bst.cost

\* lines 238-239: the least cost of the population
HistoryEntry(pop, bst) == MinByCost(pop).cost

InitGA ==
    /\ n_jobs \in 1 .. MaxJobs
    /\ n_machines \in 1 .. MaxMachines
    /\ CyclicInstance
    /\ DecoderIdle
    /\ pop_size \in 0 .. MaxPop
    /\ generations \in 0 .. MaxGen
    /\ tournament_k \in 1 .. MaxK
    /\ population = <<>> /\ best = NoIndividual /\ best_history = <<>>
    /\ gen = 0 /\ new_population = <<>>
    /\ parent1 = NoChromosome /\ parent2 = NoChromosome
    /\ child1 = NoChromosome /\ child2 = NoChromosome
    /\ mi = 0 /\ gpc = "start"
    /\ NoReferences

\* lines 192-199: the initial population, best and history
CreatePopulation ==
    /\ gpc = "start"
    /\ IF pop_size >= 1 /\ EvaluateFails([i \in Jobs |-> i])
       THEN \* line 119: evaluate() of the first individual raises
            /\ gpc' = "error"
            /\ UNCHANGED <<population, best, best_history, best_at>>
       ELSE IF pop_size <= 0
       THEN \* line 198: min() of the empty population raises
            /\ gpc' = "error"
            /\ UNCHANGED <<population, best, best_history, best_at>>
       ELSE \E chromosomes \in [1 .. pop_size -> Perms(n_jobs)] :
            /\ population' = [i \in 1 .. pop_size |-> Individual(chromosomes[i])]
            /\ best' = MinByCost(population')
            /\ best_at' = MinAtByCost(population')
            /\ best_history' = <<best'.cost>>
            /\ gpc' = "loop"
    /\ UNCHANGED <<instVars, decVars, lbVars, cfgVars, gen, new_population,
                   parent1, parent2, child1, child2, mi,
                   sample1, sample2, alias1, alias2, cuts>>

\* lines 201-211: a generation begins with the elite; best becomes the
\* elite's dict if that is cheaper, the new population gets a copy of it
Elitism ==
    /\ gpc = "loop"
    /\ gen < generations
    /\ LET elite == Elite(population)
       IN /\ best' = IF elite.cost < best.cost THEN elite ELSE best
          /\ best_at' = IF elite.cost < best.cost
                        THEN MinAtByCost(population) ELSE best_at
          /\ new_population' = <<[chromosome |-> elite.chromosome,
                                  cost |-> elite.cost]>>
    /\ gpc' = "while"
    /\ UNCHANGED <<instVars, decVars, lbVars, cfgVars, population, best_history,
                   gen, parent1, parent2, child1, child2, mi,
                   sample1, sample2, alias1, alias2, cuts>>

\* lines 214-216: two tournaments
SelectParents ==
    /\ gpc = "while"
    /\ Len(new_population) < pop_size
    /\ IF TournamentFails(population, tournament_k)
       THEN /\ gpc' = "error"
            /\ UNCHANGED <<parent1, parent2, sample1, sample2>>
       ELSE \E c1, c2 \in Samples(Len(population), tournament_k) :
            /\ sample1' = c1
            /\ sample2' = c2
            /\ parent1' = tournament_selection(population, c1).chromosome
            /\ parent2' = tournament_selection(population, c2).chromosome
            /\ gpc' = "cross"
    /\ UNCHANGED <<instVars, decVars, lbVars, cfgVars, population, best,
                   best_history, gen, new_population, child1, child2, mi,
                   best_at, alias1, alias2, cuts>>

\* lines 218-223: crossover or copy, by the coin random.random() <
\* crossover_rate; order_crossover returns a new list; the parents and the
\* samples are not read after this
Crossover ==
    /\ gpc = "cross"
    /\ \E coin \in BOOLEAN :
          IF coin
          THEN IF CrossoverFails(parent1)
               THEN /\ gpc' = "error"
                    /\ UNCHANGED <<child1, child2, mi, alias1, alias2>>
               ELSE \E ab1, ab2 \in Cuts(Cardinality(DOMAIN parent1)) :
                    /\ child1' = order_crossover(parent1, parent2, ab1[1], ab1[2])
                    /\ child2' = order_crossover(parent2, parent1, ab2[1], ab2[2])
                    /\ alias1' = 0 /\ alias2' = 0
                    /\ mi' = 0
                    /\ gpc' = "mutate1"
          ELSE /\ child1' = parent1
               /\ child2' = parent2
               /\ alias1' = ChildObject(WinnerAt(population, sample1))
               /\ alias2' = ChildObject(WinnerAt(population, sample2))
               /\ mi' = 0
               /\ gpc' = "mutate1"
    /\ parent1' = NoChromosome /\ parent2' = NoChromosome
    /\ sample1' = <<>> /\ sample2' = <<>>
    /\ UNCHANGED <<instVars, decVars, lbVars, cfgVars, population, best,
                   best_history, gen, new_population, best_at, cuts>>

\* line 169 on a list: every reference to the list at position at of the
\* population (at # 0) sees the swap
WrittenPopulation(pop, at, chromosome) ==
    IF at = 0 THEN pop ELSE [pop EXCEPT ![at].chromosome = chromosome]
WrittenBest(bst, bat, at, chromosome) ==
    IF at # 0 /\ bat = at THEN [bst EXCEPT !.chromosome = chromosome] ELSE bst

\* lines 166-169, in the calls of lines 225 and 226: position mi of the
\* child, by the coin random.random() < mutation_rate and the target j; the
\* swap is made in place, in the list the child refers to
MutateGene ==
    /\ gpc \in {"mutate1", "mutate2"}
    /\ LET child == IF gpc = "mutate1" THEN child1 ELSE child2
           at == IF gpc = "mutate1" THEN alias1 ELSE alias2
           other == IF gpc = "mutate1" THEN alias2 ELSE alias1
           size == Cardinality(DOMAIN child)
       IN /\ mi < size
          /\ \E coin \in BOOLEAN :
                IF coin
                THEN \E j \in 0 .. (size - 1) :
                        LET swapped == SwapGenes(child, mi, j)
                            both == (at # 0 /\ other = at)
                        IN /\ child1' = IF gpc = "mutate1" \/ both
                                        THEN swapped ELSE child1
                           /\ child2' = IF gpc = "mutate2" \/ both
                                        THEN swapped ELSE child2
                           /\ population' = WrittenPopulation(population, at, swapped)
                           /\ best' = WrittenBest(best, best_at, at, swapped)
                ELSE UNCHANGED <<child1, child2, population, best>>
          /\ IF mi + 1 < size
             THEN mi' = mi + 1 /\ UNCHANGED gpc
             ELSE mi' = 0 /\ gpc' = (IF gpc = "mutate1" THEN "mutate2" ELSE "append")
    /\ UNCHANGED <<instVars, decVars, lbVars, cfgVars,
                   best_history, gen, new_population, parent1, parent2,
                   refVars>>

\* lines 228-233: the children are evaluated and appended, the second one
\* only while there is room; the children are not read after this
AppendChildren ==
    /\ gpc = "append"
    /\ new_population' = AppendedChildren(new_population, child1, child2, pop_size)
    /\ child1' = NoChromosome /\ child2' = NoChromosome
    /\ alias1' = 0 /\ alias2' = 0
    /\ gpc' = "while"
    /\ UNCHANGED <<instVars, decVars, lbVars, cfgVars, population, best,
                   best_history, gen, parent1, parent2, mi,
                   sample1, sample2, best_at, cuts>>

\* lines 235-239: the population is replaced and its best cost recorded;
\* best still refers to a dict of an earlier population
EndGeneration ==
    /\ gpc = "while"
    /\ Len(new_population) >= pop_size
    /\ population' = new_population
    /\ best_history' = Append(best_history, HistoryEntry(new_population, best))
    /\ gen' = gen + 1
    /\ new_population' = <<>>
    /\ best_at' = 0
    /\ gpc' = "loop"
    /\ UNCHANGED <<instVars, decVars, lbVars, cfgVars, best,
                   parent1, parent2, child1, child2, mi,
                   sample1, sample2, alias1, alias2, cuts>>

\* line 244
Return ==
    /\ gpc = "loop"
    /\ gen >= generations
    /\ gpc' = "done"
    /\ UNCHANGED <<instVars, decVars, lbVars, cfgVars, population, best,
                   best_history, gen, new_population, parent1, parent2,
                   child1, child2, mi, refVars>>

NextGA ==
    \/ CreatePopulation \/ Elitism \/ SelectParents \/ Crossover
    \/ MutateGene \/ AppendChildren \/ EndGeneration \/ Return

SpecGA == InitGA /\ [][NextGA]_vars

\* ---------------------------------------------------------------------
\* order_crossover on its own
\* ---------------------------------------------------------------------

\* two parents of the same size >= 2 and two cut points a < b
InitOX ==
    /\ n_jobs \in 2 .. MaxOXSize
    /\ n_machines = 1
    /\ CyclicInstance
    /\ DecoderIdle
    /\ pop_size = 0 /\ generations = 0 /\ tournament_k = 0
    /\ population = <<>> /\ best = NoIndividual /\ best_history = <<>>
    /\ gen = 0 /\ new_population = <<>>
    /\ parent1 \in Perms(n_jobs) /\ parent2 \in Perms(n_jobs)
    /\ child1 = NoChromosome /\ child2 = NoChromosome
    /\ mi = 0 /\ gpc = "ox"
    /\ sample1 = <<>> /\ sample2 = <<>>
    /\ best_at = 0 /\ alias1 = 0 /\ alias2 = 0
    /\ cuts \in Cuts(n_jobs)

\* lines 134-157 for the chosen cut points
ApplyCrossover ==
    /\ gpc = "ox"
    /\ child1' = order_crossover(parent1, parent2, cuts[1], cuts[2])
    /\ gpc' = "oxdone"
    /\ UNCHANGED <<instVars, decVars, lbVars, cfgVars, population, best,
                   best_history, gen, new_population, parent1, parent2,
                   child2, mi, refVars>>

NextOX == ApplyCrossover

SpecOX == InitOX /\ [][NextOX]_vars

\* ---------------------------------------------------------------------
\* Properties of the decoder and of the lower bound (SpecDecoder)
\* ---------------------------------------------------------------------

\* C1: for every instance with n_jobs >= 2 and every permutation ordering,
\* the makespan returned by decode_schedule is never less than the value
\* returned by calcular_ddlb for the same instance.
C1_LowerBoundSound ==
    (dpc = "done" /\ lpc = "done" /\ n_jobs >= 2) => GeqFrac(makespan, ddlb)

\* the k-th entry (job, start, end) of machine m's list
Entry(m, k) == schedule[m][k]

\* C2: every entry (job, start, end) of the schedule has start >=
\* ready_time[job] and end = start + processing_time[job], and consecutive
\* entries p, q of one machine have start[q] >= end[p] + setup_time[p][q],
\* an undefined setup counting as 0.
C2_ScheduleValid ==
    \A m \in Machines : \A k \in 1 .. Len(schedule[m]) :
        LET job == Entry(m, k)[1]
            start == Entry(m, k)[2]
            end == Entry(m, k)[3]
        IN /\ start >= ready_times[job]
           /\ end = start + processing_times[job]
           /\ (k > 1) =>
                LET prev == Entry(m, k - 1)[1]
                    prevEnd == Entry(m, k - 1)[3]
                    setup == IF setup_matrix[prev][job] = None THEN 0
                             ELSE setup_matrix[prev][job]
                IN start >= prevEnd + setup

\* C2 witness: a finished schedule in which a job follows another on its
\* machine after a positive setup, and a job waited for its ready time
C2_Witness ==
    /\ dpc = "done"
    /\ \E m \in Machines : \E k \in 2 .. Len(schedule[m]) :
          /\ setup_matrix[Entry(m, k - 1)[1]][Entry(m, k)[1]] > 0
          /\ Entry(m, k)[2] = Entry(m, k - 1)[3] +
                               setup_matrix[Entry(m, k - 1)[1]][Entry(m, k)[1]]
    /\ \E m \in Machines : \E k \in 1 .. Len(schedule[m]) :
          /\ Entry(m, k)[2] = ready_times[Entry(m, k)[1]]
          /\ Entry(m, k)[2] > 0

\* C7: decoding the empty ordering returns makespan 0 and a schedule in
\* which every machine's list is empty, without an error.
C7_EmptyOrderingDecodes ==
    (n_jobs = 0 /\ dpc # "loop") =>
        /\ dpc = "done"
        /\ makespan = 0
        /\ \A m \in Machines : schedule[m] = <<>>

\* job i has no defined setup to any other job
NoOutgoingSetup(i) == \A j \in Jobs \ {i} : setup_matrix[i][j] = None

\* C8: calcular_ddlb returns 0 when n_jobs = 0, and it returns a value
\* without failing when some job has no defined outgoing setup.
C8_DegenerateBound ==
    /\ (n_jobs = 0 /\ lpc # "idle") => (lpc = "done" /\ ddlb.num = 0)
    /\ ((\E i \in Jobs : NoOutgoingSetup(i)) /\ lpc # "idle") => lpc = "done"

\* the candidate start and finish of job on machine m in the current
\* decoder state: max(free_time[m] + setup from last_job[m] if any,
\* ready_time[job]), plus processing_time[job]
CandStartOn(m, job) ==
    LET setup == IF last_job[m] = None \/ setup_matrix[last_job[m]][job] = None
                 THEN 0 ELSE setup_matrix[last_job[m]][job]
        free == machine_time[m] + setup
    IN IF free >= ready_times[job] THEN free ELSE ready_times[job]
CandFinishOn(m, job) == CandStartOn(m, job) + processing_times[job]

\* C11: at each decoder step the job is committed to a machine whose
\* candidate finish time is minimal over all machines, the lowest-indexed
\* one among those, and the committed start and end are that machine's
\* candidate values.
C11_GreedyChoice ==
    [][(dpc = "loop" /\ pos' = pos + 1) =>
        \E bm \in Machines :
            /\ \A m \in Machines : CandFinishOn(bm, order[pos]) <= CandFinishOn(m, order[pos])
            /\ \A m \in Machines :
                  (m < bm) => CandFinishOn(m, order[pos]) > CandFinishOn(bm, order[pos])
            /\ schedule'[bm] = Append(schedule[bm],
                  <<order[pos], CandStartOn(bm, order[pos]), CandFinishOn(bm, order[pos])>>)
            /\ \A m \in Machines \ {bm} : schedule'[m] = schedule[m]
            /\ machine_time'[bm] = CandFinishOn(bm, order[pos])
            /\ last_job'[bm] = order[pos]
            /\ completion_times'[order[pos]] = CandFinishOn(bm, order[pos])]_vars

\* C11 witness: a finished schedule on two machines in which the second
\* machine was chosen for a job and the first one holds two jobs
C11_Witness ==
    /\ dpc = "done"
    /\ n_machines = 2
    /\ Len(schedule[0]) >= 2
    /\ Len(schedule[1]) >= 1

\* the jobs on machine m, in the order of its list
JobsOn(m) == [k \in 1 .. Len(schedule[m]) |-> schedule[m][k][1]]

\* the position of a job in the ordering
PositionOf(job) == CHOOSE k \in DOMAIN order : order[k] = job

\* the number of entries in the lists of machines 0..m
RECURSIVE EntriesUpTo(_)
EntriesUpTo(m) == IF m < 0 THEN 0 ELSE Len(schedule[m]) + EntriesUpTo(m - 1)

\* C12: the loop over the ordering finds a machine for every next job and
\* ends with every job placed; the jobs placed so far appear in exactly one machine's list
\* exactly once (after the loop: all n_jobs of them), and on each machine
\* in the same relative order as in the ordering.
C12_PlacedOnceInOrder ==
    /\ pos \in 0 .. n_jobs
    /\ (dpc = "loop" /\ pos < n_jobs) =>
          ScanMachines(machine_time, last_job, order[pos], 0, NoBest).machine
             \in Machines
    /\ (dpc \in {"done", "error"}) => (pos = n_jobs)
    /\ (dpc # "idle") =>
          /\ EntriesUpTo(n_machines - 1) = pos
          /\ \A k \in 0 .. (pos - 1) :
                Cardinality({ mk \in { <<m, i>> : m \in Machines, i \in 1 .. n_jobs } :
                                 /\ mk[2] <= Len(schedule[mk[1]])
                                 /\ schedule[mk[1]][mk[2]][1] = order[k] }) = 1
          /\ \A m \in Machines : \A i, j \in 1 .. Len(schedule[m]) :
                (i < j) => PositionOf(JobsOn(m)[i]) < PositionOf(JobsOn(m)[j])

\* C12 witness: three jobs decoded, two of them on one machine
C12_Witness ==
    /\ dpc = "done"
    /\ n_jobs = 3
    /\ \E m \in Machines : Len(schedule[m]) = 2
    /\ \E m \in Machines : Len(schedule[m]) = 1

\* C18: for every job i and every other job j, the delta[i] calcular_ddlb
\* computes is <= the setup decode_schedule charges when j directly follows
\* i, an undefined setup being charged as 0.
C18_DeltaIsMinimumCharged ==
    (lpc = "done") =>
        \A i, j \in Jobs : (i # j) => Deltas[i] <= SetupCharged(i, j)

\* ---------------------------------------------------------------------
\* Sufficient machines (SpecSufficient)
\* ---------------------------------------------------------------------

\* at least as many machines as jobs, ready times 0, setups 0
Sufficient ==
    /\ n_jobs >= 1
    /\ n_machines >= n_jobs
    /\ \A i \in Jobs : ready_times[i] = 0
    /\ \A i, j \in Jobs : (i # j) => setup_matrix[i][j] = 0

\* every job is alone on its machine
EachJobAlone ==
    /\ \A m \in Machines : Len(schedule[m]) <= 1
    /\ \A i \in Jobs : \E m \in Machines :
          Len(schedule[m]) = 1 /\ schedule[m][1][1] = i

MaxProcessing == MaxOfSet({ processing_times[i] : i \in Jobs })

\* C10 as stated: with sufficient machines, zero ready times and setups and
\* processing times >= 0, every job is placed on a machine that holds no
\* other job, and the makespan is the maximum processing time.
C10_OwnMachine ==
    (dpc = "done" /\ Sufficient) =>
        (EachJobAlone /\ makespan = MaxProcessing)

\* C10 amended: the makespan is the maximum processing time, and every job
\* is alone on its machine when every processing time is positive.
C10_OwnMachineIfPositive ==
    (dpc = "done" /\ Sufficient) =>
        /\ makespan = MaxProcessing
        /\ (\A i \in Jobs : processing_times[i] > 0) => EachJobAlone

\* C10 witness: three jobs of different positive lengths, decoded
C10_Witness ==
    /\ dpc = "done" /\ Sufficient /\ n_jobs = 3
    /\ \A i \in Jobs : processing_times[i] > 0
    /\ \A i, j \in Jobs : (i # j) => processing_times[i] # processing_times[j]
    /\ EachJobAlone

\* ---------------------------------------------------------------------
\* Properties of the genetic algorithm (SpecGA)
\* ---------------------------------------------------------------------

HistoryMin == MinOfSet({ best_history[g] : g \in 1 .. Len(best_history) })

\* C3: when genetic_algorithm returns, the cost of the returned best
\* individual equals the minimum of all entries of the returned history.
C3_BestIsHistoryMin ==
    (gpc = "done") => (best.cost = HistoryMin)

\* C4: the history is non-increasing: History[g+1] <= History[g] for every
\* generation g.
C4_HistoryNonIncreasing ==
    \A g \in 1 .. (Len(best_history) - 1) : best_history[g + 1] <= best_history[g]

\* C4 witness: a returned run of two generations whose population held an
\* individual worse than its elite, and whose history went down
C4_Witness ==
    /\ gpc = "done"
    /\ Len(best_history) = 3
    /\ best_history[3] < best_history[1]
    /\ \E i \in 1 .. Len(population) : population[i].cost > best_history[3]

\* the ordering holds each of 0..n_jobs-1 exactly once
IsPermutation(chromosome) ==
    /\ DOMAIN chromosome = Jobs
    /\ \A job \in Jobs :
          Cardinality({ i \in DOMAIN chromosome : chromosome[i] = job }) = 1

\* C5: every ordering produced by initialization, by order_crossover or by
\* mutate_swap, and every ordering stored in the population or in best,
\* holds each of 0..n_jobs-1 exactly once.
C5_PermutationInvariant ==
    /\ \A i \in 1 .. Len(population) : IsPermutation(population[i].chromosome)
    /\ \A i \in 1 .. Len(new_population) :
          IsPermutation(new_population[i].chromosome)
    /\ (best # NoIndividual) => IsPermutation(best.chromosome)
    /\ (gpc = "cross") => (IsPermutation(parent1) /\ IsPermutation(parent2))
    /\ (gpc \in {"mutate1", "mutate2", "append"}) =>
          (IsPermutation(child1) /\ IsPermutation(child2))

\* C5 witness: two children of three jobs, made by crossover and mutation,
\* that are in the population neither of them
C5_Witness ==
    /\ gpc = "append"
    /\ n_jobs = 3
    /\ child1 # child2
    /\ \A i \in 1 .. Len(population) :
          population[i].chromosome # child1 /\ population[i].chromosome # child2

\* the configuration is valid
ValidConfiguration ==
    /\ pop_size >= 1
    /\ generations >= 1
    /\ 1 <= tournament_k /\ tournament_k < pop_size

\* C6: for every instance with n_jobs >= 1 and every valid configuration,
\* no step of genetic_algorithm ends in an error.
C6_NoErrorOnceValid ==
    (gpc # "idle" /\ n_jobs >= 1 /\ ValidConfiguration) => (gpc # "error")

\* C9: with tournament_k >= pop_size, pop_size <= 0 or generations <= 0,
\* genetic_algorithm enters no generation step and returns no result.
C9_ConfigurationRejected ==
    (gpc # "idle" /\ ~ValidConfiguration) =>
        /\ gpc \in {"start", "loop", "error"}
        /\ new_population = <<>>
        /\ gen = 0

\* the makespan decode_schedule returns for an ordering
DecodedMakespan(chromosome) ==
    LET ct == DecodeFrom(DecoderStart(chromosome), chromosome, 0).completion_times
    IN CHOOSE x \in { ct[i] : i \in DOMAIN ct } :
          \A i \in DOMAIN ct : ct[i] <= x

\* C13: for every Individual of the population, of the new population and
\* for best, the recorded cost equals the makespan decode_schedule returns
\* for its current ordering.
C13_CostConsistent ==
    /\ \A i \in 1 .. Len(population) :
          population[i].cost = DecodedMakespan(population[i].chromosome)
    /\ \A i \in 1 .. Len(new_population) :
          new_population[i].cost = DecodedMakespan(new_population[i].chromosome)
    /\ (best # NoIndividual) => (best.cost = DecodedMakespan(best.chromosome))

\* C13 witness: after a generation, the population holds the elite copy
\* and two children of different costs, the more expensive one dearer than
\* the elite copy
C13_Witness ==
    /\ gpc = "loop" /\ gen = 1 /\ pop_size = 3 /\ n_machines = 1 /\ n_jobs = 3
    /\ population[1].cost < population[2].cost
    /\ population[3].cost < population[2].cost
    /\ best.cost >= population[1].cost

Breeding == {"while", "cross", "mutate1", "mutate2", "append"}

\* C14: tournament selection, crossover, mutation and the appending of the
\* children change no ordering and no cost of the current population nor
\* of best; the new population only grows.
C14_BreedingFrame ==
    [][(gpc \in Breeding /\ gpc' \in Breeding \cup {"error"}) =>
          /\ population' = population
          /\ best' = best
          /\ Len(new_population') >= Len(new_population)
          /\ \A i \in 1 .. Len(new_population) :
                new_population'[i] = new_population[i]]_vars

\* C14 witness: a child copied from a parent and then changed by mutation
\* is in the new population, while the population it was bred from is
\* still the current one
C14_Witness ==
    /\ gpc = "while"
    /\ Len(new_population) = 2
    /\ \A i \in 1 .. Len(population) :
          population[i].chromosome # new_population[2].chromosome
    /\ \A i, j \in 1 .. Len(population) :
          population[i].chromosome = population[j].chromosome

\* C15: after initialization and after every generation step the
\* population holds exactly pop_size Individuals; the new population never
\* exceeds pop_size, and for pop_size = 1 it is the elite copy alone.
C15_PopulationSize ==
    /\ (gpc \in Breeding \cup {"loop", "done"}) => (Len(population) = pop_size)
    /\ (gpc = "error") => (Len(population) \in {0, pop_size})
    /\ (gpc # "idle") => (Len(new_population) <= pop_size)
    /\ (gpc = "while" /\ pop_size = 1) =>
          (new_population = <<[chromosome |-> population[1].chromosome,
                               cost |-> population[1].cost]>>)

\* C15 witness: a returned run of two generations with pop_size = 2, where
\* each breeding pair had room for one child only
C15_Witness ==
    /\ gpc = "done" /\ gen = 2 /\ pop_size = 2
    /\ Len(population) = 2

LeastCost(pop) ==
    CHOOSE x \in { pop[i].cost : i \in 1 .. Len(pop) } :
        \A i \in 1 .. Len(pop) : x <= pop[i].cost

\* C16: after g completed generation steps the history has g+1 entries,
\* the last one is the least cost of the population after step g (entry 0:
\* of the initial population), an appended entry never changes, and the
\* returned history has generations+1 entries.
C16_HistoryAppendOnly ==
    /\ []((gpc \in Breeding \cup {"loop", "done"}) =>
             (Len(best_history) = gen + 1))
    /\ []((gpc = "loop") => (best_history[gen + 1] = LeastCost(population)))
    /\ []((gpc = "done") => (Len(best_history) = generations + 1))
    /\ [][/\ Len(best_history') >= Len(best_history)
          /\ \A g \in 1 .. Len(best_history) : best_history'[g] = best_history[g]]_vars

\* C16 witness: a returned run of two generations in which best is more
\* expensive than the last entry of the history
C16_Witness ==
    /\ gpc = "done" /\ generations = 2
    /\ Len(best_history) = 3
    /\ best.cost > best_history[3]

\* C19: tournament_selection returns an Individual of the population that
\* is one of the k Individuals drawn at k distinct positions, whose cost is
\* <= the cost of each other drawn one, and that is the first drawn one of
\* that cost.
TournamentResult(c, parent) ==
    /\ Len(c) = tournament_k
    /\ \A i \in 1 .. Len(c) : c[i] \in 1 .. Len(population)
    /\ \A i, j \in 1 .. Len(c) : (i # j) => (c[i] # c[j])
    /\ \E w \in 1 .. Len(c) :
          /\ parent = population[c[w]].chromosome
          /\ \A j \in 1 .. Len(c) : population[c[w]].cost <= population[c[j]].cost
          /\ \A j \in 1 .. (w - 1) :
                \/ population[c[j]].cost > population[c[w]].cost
                \/ population[c[j]].chromosome = population[c[w]].chromosome

C19_TournamentWinner ==
    (gpc = "cross") =>
        (TournamentResult(sample1, parent1) /\ TournamentResult(sample2, parent2))

\* C19 witness: two Individuals of equal cost and different orderings are
\* drawn, the one at the higher position first, and it is returned
C19_Witness ==
    /\ gpc = "cross"
    /\ Len(sample1) = 2
    /\ sample1[1] > sample1[2]
    /\ population[sample1[1]].cost = population[sample1[2]].cost
    /\ population[sample1[1]].chromosome # population[sample1[2]].chromosome
    /\ parent1 = population[sample1[1]].chromosome

\* ---------------------------------------------------------------------
\* Properties of order_crossover (SpecOX)
\* ---------------------------------------------------------------------

\* the genes of p1[a:b), and the genes of p2 read from index b with
\* wrap-around
SliceGenes == { parent1[i] : i \in cuts[1] .. (cuts[2] - 1) }
WalkGene(u) == parent2[(cuts[2] + u) % n_jobs]

\* C17: the child equals p1 on positions a..b-1, and its remaining
\* positions, read in the order b, ..., size-1, 0, ..., a-1, hold the genes
\* of p2 that are not in p1[a:b), in the order in which they occur in p2
\* read from index b with wrap-around.
C17_CrossoverStructure ==
    (gpc = "oxdone") =>
        /\ DOMAIN child1 = 0 .. (n_jobs - 1)
        /\ \A i \in cuts[1] .. (cuts[2] - 1) : child1[i] = parent1[i]
        /\ \A u \in 0 .. (n_jobs - 1) :
              (WalkGene(u) \notin SliceGenes) =>
                 LET before == Cardinality({ v \in 0 .. (u - 1) :
                                               WalkGene(v) \notin SliceGenes })
                 IN child1[(cuts[2] + before) % n_jobs] = WalkGene(u)

\* C17 witness: parents of four genes, a slice strictly inside the child,
\* and a child that is neither parent
C17_Witness ==
    /\ gpc = "oxdone"
    /\ n_jobs = 4
    /\ cuts = <<1, 3>>
    /\ child1 # parent1 /\ child1 # parent2

====
